---- MODULE Spec2Model ----
(***************************************************************************)
(* Contract processor: the job registry and the background pipeline of     *)
(* ProcessorService (src/src/services/processor.service.ts), driven by the *)
(* routes of src/src/routes/contract.routes.ts: the upload route and the   *)
(* two routes that read the registry. Spec is the service under accepted   *)
(* uploads; UploadSpec, StatusSpec and ListSpec add the requests that are  *)
(* turned away or only read, and HangSpec adds provider calls that never   *)
(* settle. LogFaultSpec lets the log calls after the completion write      *)
(* throw, NamedSpec names the stored uploads as multer's callback does,    *)
(* and UnitSpec takes one call of generateDemoData or of                   *)
(* ConfluenceService.createContractPage by itself.                         *)
(*                                                                         *)
(* Node runs every handler and every continuation of an async function to  *)
(* its next await without interleaving, so one action is one such run: the *)
(* upload handler up to the first await inside executeProcessing, and then *)
(* one action per settled await of a job's background task.                *)
(*                                                                         *)
(* An optional field of a TypeScript object is a set: {} when the field is *)
(* undefined and {v} when it holds v.                                      *)
(*                                                                         *)
(* The logger (src/utils/logger.ts, a winston logger) is taken to return   *)
(* from every call, except under LogFaultSpec; its calls change no state   *)
(* of the service.                                                         *)
(***************************************************************************)
EXTENDS Integers, Sequences, FiniteSets, TLC

\* Number of uploads a behaviour may hold.
MaxJobs == 2

\* The values uuidv4() may return.
JobIds == 1..MaxJobs

\* uuidv4(): the n-th identifier drawn. No two draws agree, and the
\* identifiers do not come in the order they are drawn.
uuidv4(n) == MaxJobs + 1 - n

\* The four statuses of ProcessingJob.
Statuses == {"pending", "processing", "completed", "failed"}

\* The pipeline stages, in the order executeProcessing calls them.
StageOrder == <<"isValidPDF", "extractText", "extractContractData", "createContractPage">>

\* The stages that call out to a collaborator's own dependency.
Providers == {"extractText", "extractContractData", "createContractPage"}

\* The first five bytes isValidPDF looks for.
PdfMagic == "%PDF-"

\* Files that pass the route's upload filter (mimetype application/pdf) as
\* multer stores them: the original name, the first five bytes and the
\* cleaned text pdf-parse yields for a well-formed body.
Uploads ==
    { [originalname |-> "msa.pdf",  header |-> "%PDF-", text |-> "Master Services Agreement"],
      [originalname |-> "nda.pdf",  header |-> "%PDF-", text |-> "Non-Disclosure Agreement"],
      [originalname |-> "scan.pdf", header |-> "<html", text |-> "scanned page"] }

\* The upload requests the filter and the size limit let through: the file
\* and the text fields of the multipart body sent with it.
Requests ==
    { [file |-> f,
       body |-> [targetConfluenceUrl |->
                    IF f.originalname = "msa.pdf" THEN {"https://wiki/legal"} ELSE {}]]
      : f \in Uploads }

\* limits.fileSize in MB: parseInt(process.env.MAX_FILE_SIZE_MB || '10').
MaxFileSizeMB == 10

\* Upload requests that do not get as far as processContract: no file part,
\* or a file part of some type and size.
OtherRequests ==
    { [part |-> {}],
      [part |-> {[mimetype |-> "text/plain", sizeMB |-> 1]}],
      [part |-> {[mimetype |-> "text/plain", sizeMB |-> MaxFileSizeMB + 1]}],
      [part |-> {[mimetype |-> "application/pdf", sizeMB |-> MaxFileSizeMB + 1]}] }

\* The ids a client may ask about: every id uuidv4() may return and one it
\* never returns.
RequestIds == JobIds \cup {0}

\* Messages of the failures the collaborators' own dependencies raise.
PdfParseMessage == "bad XRef entry"
AiMessage == "No JSON found in AI response"
AxiosMessage == "Request failed with status code 429"
OtherMessage == "quota exceeded"

VARIABLES
    jobs,       \* ProcessorService.jobs: the Map, as its entries in insertion order
    task,       \* per job id: the background task's position and locals, and how
                \* often it has assigned job.completedAt
    disk,       \* the upload directory: path -> stored file
    calls,      \* per job id: every call made on the job's behalf, in order
    statusLog,  \* per job id: every value assigned to job.status, in order
    returned,   \* per call of processContract, in order: what its caller gets and finds
    res,        \* the response the step that led here sent: {} when it sent none
    applied     \* one call of a collaborator taken by itself: its name, its
                \* arguments and, once made, what it gave; {} when none is studied

vars == <<jobs, task, disk, calls, statusLog, returned, res, applied>>

----------------------------------------------------------------------------
\* The registry (a Map keeps insertion order; set() on an existing key keeps
\* the entry's position).

Range(s) == { s[i] : i \in 1..Len(s) }

JobKeys == { jobs[i].id : i \in 1..Len(jobs) }

JobsGet(m, id) == CHOOSE r \in Range(m) : r.id = id

\* Variant: an update removes the entry and adds it again at the end.
JobsSetReinsert(m, id, rec) ==
    LET Others(r) == r.id # id IN Append(SelectSeq(m, Others), rec)

JobsSet(m, id, rec) ==
    IF \E i \in 1..Len(m) : m[i].id = id
    THEN [i \in 1..Len(m) |-> IF m[i].id = id THEN rec ELSE m[i]]
    ELSE Append(m, rec)

getJobStatus(id) == IF id \in JobKeys THEN {JobsGet(jobs, id)} ELSE {}

getAllJobs == jobs

Terminal(status) == status \in {"completed", "failed"}

\* new Date(): the instant of the call. Time is not followed: every instant
\* is the same value.
now == "Date"

----------------------------------------------------------------------------
\* Thrown values. `new Error(m)` is an Error carrying m; a catch clause may
\* also receive a value that is no Error.

NewError(m) == [isError |-> TRUE, message |-> m]

NonError == [isError |-> FALSE, message |-> ""]

\* Variant: the instanceof test never succeeds.
ErrorMessageUnknown(error) == "Unknown error"

\* Variant: the message is read without the instanceof test.
ErrorMessageRaw(error) == error.message

\* error instanceof Error ? error.message : 'Unknown error'
ErrorMessage(error) == IF error.isError THEN error.message ELSE "Unknown error"

\* The error executeProcessing throws when isValidPDF answers false.
InvalidPdfError == NewError("Invalid PDF file")

----------------------------------------------------------------------------
\* The collaborators, each as the set of outcomes one call can have:
\* [ok |-> TRUE, val |-> returned value] or [ok |-> FALSE, val |-> thrown value].

Returns(v) == [ok |-> TRUE, val |-> v]

Throws(e) == [ok |-> FALSE, val |-> e]

\* PDFService.isValidPDF: true iff the file can be read and starts with the
\* magic number; a failed read is caught and answered with false.
isValidPDF(files, filePath) ==
    IF filePath \in DOMAIN files
    THEN {Returns(files[filePath].header = PdfMagic), Returns(FALSE)}
    ELSE {Returns(FALSE)}

\* PDFService.extractText: the cleaned text, or an Error wrapping the failure
\* of the read or of pdf-parse.
extractText(files, filePath) ==
    IF filePath \in DOMAIN files
    THEN { Returns(files[filePath].text),
           Throws(NewError("Failed to extract text from PDF: " \o PdfParseMessage)) }
    ELSE { Throws(NewError("Failed to extract text from PDF: " \o "ENOENT")) }

\* AIService.extractContractData: a record derived from the text it was given,
\* or an Error wrapping whatever failed.
extractContractData(contractText) ==
    { Returns([contractTitle |-> contractText]),
      Throws(NewError("Failed to extract contract data: " \o AiMessage)) }

\* ConfluenceService.createContractPage: the locator of the page made from the
\* record, or in demo mode the target when one is given; an axios failure is
\* rethrown as a wrapping Error, anything else that was caught is rethrown as
\* it is.
createContractPage(contractData, targetUrl) ==
    { Returns("https://wiki/" \o contractData.contractTitle),
      Returns(IF targetUrl # {} THEN CHOOSE u \in targetUrl : TRUE
              ELSE "https://wiki/" \o contractData.contractTitle),
      Throws(NewError("Confluence API error: " \o AxiosMessage)),
      Throws(NewError(OtherMessage)),
      Throws(NonError) }

\* fs.unlink: resolves once the file is removed, or rejects.
unlink(files, filePath) ==
    IF filePath \in DOMAIN files
    THEN {Returns(TRUE), Throws(NewError("EPERM"))}
    ELSE {Throws(NewError("ENOENT"))}

Remove(files, filePath) == [q \in DOMAIN files \ {filePath} |-> files[q]]

Store(files, filePath, file) ==
    [q \in DOMAIN files \cup {filePath} |-> IF q = filePath THEN file ELSE files[q]]

----------------------------------------------------------------------------
\* ProcessorService

\* The job record processContract builds.
NewJob(jobId, filename, createdAt, targetConfluenceUrl) ==
    [ id |-> jobId,
      filename |-> filename,
      status |-> "pending",
      createdAt |-> createdAt,
      targetConfluenceUrl |-> targetConfluenceUrl,
      completedAt |-> {},
      error |-> {},
      contractData |-> {},
      confluencePageUrl |-> {} ]

\* Variant: the task stamps the job when it starts.
ProcessingStamped(job) == [job EXCEPT !.status = "processing", !.completedAt = {now}]

\* Variant: the status is not touched when the task starts.
ProcessingForgotten(job) == job

\* job.status = 'processing'
Processing(job) == [job EXCEPT !.status = "processing"]

\* Variant: the locator is not stored on the job.
CompletedWithoutUrl(job, completedAt, contractData, confluenceUrl) ==
    [job EXCEPT !.status = "completed",
                !.completedAt = {completedAt},
                !.contractData = {contractData}]

\* Variant: a completed job is renamed after the title found in it.
CompletedRenames(job, completedAt, contractData, confluenceUrl) ==
    [job EXCEPT !.status = "completed",
                !.completedAt = {completedAt},
                !.contractData = {contractData},
                !.confluencePageUrl = {confluenceUrl},
                !.filename = contractData.contractTitle]

\* The four assignments that mark a job completed.
Completed(job, completedAt, contractData, confluenceUrl) ==
    [job EXCEPT !.status = "completed",
                !.completedAt = {completedAt},
                !.contractData = {contractData},
                !.confluencePageUrl = {confluenceUrl}]

\* Variant: the catch block records the error and leaves the status alone.
FailedKeepsStatus(job, completedAt, error) ==
    [job EXCEPT !.completedAt = {completedAt},
                !.error = {ErrorMessage(error)}]

\* The three assignments of the catch block.
Failed(job, completedAt, error) ==
    [job EXCEPT !.status = "failed",
                !.completedAt = {completedAt},
                !.error = {ErrorMessage(error)}]

\* Events of the call log.
Call(fn) == [ev |-> "call", fn |-> fn]

Settled(fn, outcome) == [ev |-> IF outcome.ok THEN "return" ELSE "throw", fn |-> fn]

\* The status log after `status` is assigned to job `id`; assigning the value
\* the job already has adds nothing.
Assigned(log, id, status) ==
    IF log[id][Len(log[id])] = status THEN log
    ELSE [log EXCEPT ![id] = Append(@, status)]

\* Variant: the tasks share one queue, and a task goes on only while no
\* call of any task is stuck.
AwaitingSerial(id, fn) ==
    /\ id \in DOMAIN task /\ task[id].pc = fn
    /\ \A other \in DOMAIN task : task[other].pc # "hung"

\* A background task that awaits `fn`.
Awaiting(id, fn) == id \in DOMAIN task /\ task[id].pc = fn

\* executeProcessing goes on to call the next stage and awaits it.
CallNext(id, settled, fn, locals) ==
    /\ task' = [task EXCEPT ![id] = [locals EXCEPT !.pc = fn]]
    /\ calls' = [calls EXCEPT ![id] = @ \o <<settled, Call(fn)>>]
    /\ UNCHANGED applied
    /\ res' = {}
    /\ UNCHANGED <<jobs, disk, statusLog, returned>>

\* Variant: the catch block writes to the job most recently added to the
\* registry, not to the job of its own task.
CatchLatest(id, settled, locals, error) ==
    /\ jobs' = JobsSet(jobs, jobs[Len(jobs)].id, Failed(jobs[Len(jobs)], now, error))
    /\ statusLog' = Assigned(statusLog, jobs[Len(jobs)].id, "failed")
    /\ task' = [task EXCEPT ![id] = [locals EXCEPT !.pc = "unlink", !.caught = {error},
                                                     !.completedAtWrites = @ + 1]]
    /\ calls' = [calls EXCEPT ![id] = @ \o <<settled, Call("unlink")>>]
    /\ UNCHANGED applied
    /\ res' = {}
    /\ UNCHANGED <<disk, returned>>

\* Variant: the catch block throws the error on, processContract awaits the
\* pipeline, and the upload handler answers from its own catch block.
CatchPropagates(id, settled, locals, error) ==
    /\ jobs' = JobsSet(jobs, id, Failed(JobsGet(jobs, id), now, error))
    /\ statusLog' = Assigned(statusLog, id, JobsGet(jobs', id).status)
    /\ task' = [task EXCEPT ![id] = [locals EXCEPT !.pc = "unlink", !.caught = {error},
                                                     !.completedAtWrites = @ + 1]]
    /\ calls' = [calls EXCEPT ![id] = @ \o <<settled, Call("unlink")>>]
    /\ UNCHANGED applied
    /\ res' = { [ req |-> [route |-> "POST /process",
                           upload |-> [file |-> disk[locals.filePath],
                                       body |-> [targetConfluenceUrl |-> {}]]],
                  status |-> 500,
                  body |-> [ error |-> "Failed to process contract",
                             details |-> ErrorMessage(error) ] ] }
    /\ UNCHANGED <<disk, returned>>

\* The catch block of executeProcessing: the job is marked failed with the
\* caught value's message, then the upload's removal is started and awaited.
Catch(id, settled, locals, error) ==
    /\ jobs' = JobsSet(jobs, id, Failed(JobsGet(jobs, id), now, error))
    /\ statusLog' = Assigned(statusLog, id, JobsGet(jobs', id).status)
    /\ task' = [task EXCEPT ![id] = [locals EXCEPT !.pc = "unlink", !.caught = {error},
                                                     !.completedAtWrites = @ + 1]]
    /\ calls' = [calls EXCEPT ![id] = @ \o <<settled, Call("unlink")>>]
    /\ UNCHANGED applied
    /\ res' = {}
    /\ UNCHANGED <<disk, returned>>

\* Variant: the extracted record is kept in a field of the service that all
\* tasks share, and the job gets whatever record is there.
CompleteSharedData(id, settled, confluenceUrl) ==
    /\ \E other \in DOMAIN task : \E contractData \in task[other].contractData :
          jobs' = JobsSet(jobs, id, Completed(JobsGet(jobs, id), now, contractData, confluenceUrl))
    /\ statusLog' = Assigned(statusLog, id, JobsGet(jobs', id).status)
    /\ task' = [task EXCEPT ![id].pc = "unlink", ![id].confluenceUrl = {confluenceUrl},
                            ![id].completedAtWrites = @ + 1]
    /\ calls' = [calls EXCEPT ![id] = @ \o <<settled, Call("unlink")>>]
    /\ UNCHANGED applied
    /\ res' = {}
    /\ UNCHANGED <<disk, returned>>

\* Variant: the try block ends without removing the upload.
CompleteNoCleanup(id, settled, confluenceUrl) ==
    /\ \E contractData \in task[id].contractData :
          jobs' = JobsSet(jobs, id, Completed(JobsGet(jobs, id), now, contractData, confluenceUrl))
    /\ statusLog' = Assigned(statusLog, id, JobsGet(jobs', id).status)
    /\ task' = [task EXCEPT ![id].pc = "done", ![id].confluenceUrl = {confluenceUrl},
                            ![id].completedAtWrites = @ + 1]
    /\ calls' = [calls EXCEPT ![id] = Append(@, settled)]
    /\ UNCHANGED applied
    /\ res' = {}
    /\ UNCHANGED <<disk, returned>>

\* The end of the try block: the job is marked completed, then the upload's
\* removal is started and awaited.
Complete(id, settled, confluenceUrl) ==
    /\ \E contractData \in task[id].contractData :
          jobs' = JobsSet(jobs, id, Completed(JobsGet(jobs, id), now, contractData, confluenceUrl))
    /\ statusLog' = Assigned(statusLog, id, JobsGet(jobs', id).status)
    /\ task' = [task EXCEPT ![id].pc = "unlink", ![id].confluenceUrl = {confluenceUrl},
                            ![id].completedAtWrites = @ + 1]
    /\ calls' = [calls EXCEPT ![id] = @ \o <<settled, Call("unlink")>>]
    /\ UNCHANGED applied
    /\ res' = {}
    /\ UNCHANGED <<disk, returned>>

\* Variant: an upload whose name a job already carries is answered with that
\* job's id, and no job is made for it.
processContractDedup(jobId, filePath, filename, targetConfluenceUrl) ==
    IF \E i \in 1..Len(jobs) : jobs[i].filename = filename
    THEN /\ LET known == CHOOSE r \in Range(jobs) : r.filename = filename IN
               returned' = Append(returned, [jobId |-> known.id,
                                              status |-> known.status,
                                              calls |-> calls[known.id]])
         /\ UNCHANGED <<jobs, task, calls, statusLog>>
    ELSE /\ jobs' = Append(jobs, Processing(NewJob(jobId, filename, now, targetConfluenceUrl)))
         /\ statusLog' = [k \in DOMAIN statusLog \cup {jobId} |->
                             IF k = jobId THEN <<"pending", "processing">> ELSE statusLog[k]]
         /\ task' = [k \in DOMAIN task \cup {jobId} |->
                         IF k = jobId
                         THEN [pc |-> "isValidPDF", filePath |-> filePath, isValid |-> {},
                               contractText |-> {}, contractData |-> {},
                               targetUrl |-> {}, confluenceUrl |-> {}, caught |-> {},
                               completedAtWrites |-> 0]
                         ELSE task[k]]
         /\ calls' = [k \in DOMAIN calls \cup {jobId} |->
                         IF k = jobId THEN <<Call("isValidPDF")>> ELSE calls[k]]
         /\ returned' = Append(returned, [jobId |-> jobId,
                                           status |-> "processing",
                                           calls |-> <<Call("isValidPDF")>>])

\* processContract(filePath, filename, targetConfluenceUrl) for the id that
\* uuidv4() returned. The call of executeProcessing runs up to its first
\* await before processContract returns: the job is marked processing and
\* isValidPDF is called.
processContract(jobId, filePath, filename, targetConfluenceUrl) ==
    /\ jobs' = JobsSet(JobsSet(jobs, jobId, NewJob(jobId, filename, now, targetConfluenceUrl)),
                       jobId,
                       Processing(NewJob(jobId, filename, now, targetConfluenceUrl)))
    /\ statusLog' = [k \in DOMAIN statusLog \cup {jobId} |->
                        IF k = jobId THEN <<"pending", "processing">> ELSE statusLog[k]]
    /\ task' = [k \in DOMAIN task \cup {jobId} |->
                    IF k = jobId
                    THEN [pc |-> "isValidPDF", filePath |-> filePath, isValid |-> {},
                          contractText |-> {}, contractData |-> {}, targetUrl |-> {},
                          confluenceUrl |-> {}, caught |-> {}, completedAtWrites |-> 0]
                    ELSE task[k]]
    /\ calls' = [k \in DOMAIN calls \cup {jobId} |->
                    IF k = jobId THEN <<Call("isValidPDF")>> ELSE calls[k]]
    /\ returned' = Append(returned, [jobId |-> jobId,
                                      status |-> JobsGet(jobs', jobId).status,
                                      calls |-> calls'[jobId]])

----------------------------------------------------------------------------
\* The HTTP layer: what multer does with an upload and what the handlers
\* answer. A response is [req, status, body].

\* The error the upload filter hands to multer for a file that is no PDF.
FilterError == [message |-> "Only PDF files are allowed", status |-> {}]

\* The MulterError raised when a file passes limits.fileSize.
FileTooLarge == [message |-> "File too large", status |-> {}]

\* upload.single('contract'): the filter sees the file first, then the size
\* limit applies while it is stored; without a file part req.file stays
\* undefined and the handler runs.
uploadSingle(req) ==
    IF req.part = {} THEN {Returns({})}
    ELSE LET part == CHOOSE x \in req.part : TRUE IN
         IF part.mimetype # "application/pdf" THEN {Throws(FilterError)}
         ELSE IF part.sizeMB > MaxFileSizeMB THEN {Throws(FileTooLarge)}
         ELSE {Returns(req.part)}

\* The error handler the application registers: err.status || 500.
appErrorHandler(req, err) ==
    [ req |-> [route |-> "POST /process", upload |-> req],
      status |-> IF err.status # {} THEN CHOOSE c \in err.status : TRUE ELSE 500,
      body |-> [error |-> err.message] ]

\* The answer of the upload handler when req.file is undefined.
NoFileUploaded(req) ==
    [ req |-> [route |-> "POST /process", upload |-> req],
      status |-> 400,
      body |-> [error |-> "No file uploaded"] ]

\* The answer of the upload handler once processContract has returned.
Accepted(req, jobId) ==
    [ req |-> [route |-> "POST /process", upload |-> req],
      status |-> 202,
      body |-> [ message |-> "Contract processing started",
                 jobId |-> jobId,
                 statusUrl |-> "/api/contracts/" \o ToString(jobId) \o "/status" ] ]

\* Variant: a failed job is answered as a server error.
StatusResponseFailedIs500(jobId, found) ==
    IF found = {}
    THEN [ req |-> [route |-> "GET /:jobId/status", jobId |-> jobId],
           status |-> 404,
           body |-> [error |-> "Job not found"] ]
    ELSE LET job == CHOOSE j \in found : TRUE IN
         [ req |-> [route |-> "GET /:jobId/status", jobId |-> jobId],
           status |-> IF job.status = "failed" THEN 500 ELSE 200,
           body |-> [ id |-> job.id,
                      filename |-> job.filename,
                      status |-> job.status,
                      createdAt |-> job.createdAt,
                      completedAt |-> job.completedAt,
                      confluencePageUrl |->
                          IF job.status = "completed" THEN job.confluencePageUrl ELSE {},
                      contractData |->
                          IF job.status = "completed" THEN job.contractData ELSE {},
                      error |-> IF job.status = "failed" THEN job.error ELSE {} ] ]

\* Variant: the extracted record is left out of the answer.
StatusResponseNoData(jobId, found) ==
    IF found = {}
    THEN [ req |-> [route |-> "GET /:jobId/status", jobId |-> jobId],
           status |-> 404,
           body |-> [error |-> "Job not found"] ]
    ELSE LET job == CHOOSE j \in found : TRUE IN
         [ req |-> [route |-> "GET /:jobId/status", jobId |-> jobId],
           status |-> 200,
           body |-> [ id |-> job.id,
                      filename |-> job.filename,
                      status |-> job.status,
                      createdAt |-> job.createdAt,
                      completedAt |-> job.completedAt,
                      confluencePageUrl |->
                          IF job.status = "completed" THEN job.confluencePageUrl ELSE {},
                      contractData |-> {},
                      error |-> IF job.status = "failed" THEN job.error ELSE {} ] ]

\* The answer of the status handler for what getJobStatus gave it.
StatusResponse(jobId, found) ==
    IF found = {}
    THEN [ req |-> [route |-> "GET /:jobId/status", jobId |-> jobId],
           status |-> 404,
           body |-> [error |-> "Job not found"] ]
    ELSE LET job == CHOOSE j \in found : TRUE IN
         [ req |-> [route |-> "GET /:jobId/status", jobId |-> jobId],
           status |-> 200,
           body |-> [ id |-> job.id,
                      filename |-> job.filename,
                      status |-> job.status,
                      createdAt |-> job.createdAt,
                      completedAt |-> job.completedAt,
                      confluencePageUrl |->
                          IF job.status = "completed" THEN job.confluencePageUrl ELSE {},
                      contractData |->
                          IF job.status = "completed" THEN job.contractData ELSE {},
                      error |-> IF job.status = "failed" THEN job.error ELSE {} ] ]

\* The answer of the list handler for what getAllJobs gave it.
JobsResponse(all) ==
    [ req |-> [route |-> "GET /jobs"],
      status |-> 200,
      body |-> [ total |-> Len(all),
                 jobs |-> [ i \in 1..Len(all) |->
                              [ id |-> all[i].id,
                                filename |-> all[i].filename,
                                status |-> all[i].status,
                                createdAt |-> all[i].createdAt,
                                completedAt |-> all[i].completedAt,
                                confluencePageUrl |-> all[i].confluencePageUrl ] ] ] ]

----------------------------------------------------------------------------
\* The steps of a behaviour.

\* POST /process with a file the upload filter accepted: multer has stored
\* it under a path of its own, and the handler calls processContract with
\* the path and the original name, and with no target.
PostProcess ==
    /\ Len(returned) < MaxJobs
    /\ \E req \in Requests :
          LET filePath == Len(returned) + 1
              jobId == uuidv4(Len(returned) + 1) IN
          /\ disk' = Store(disk, filePath, req.file)
          /\ processContract(jobId, filePath, req.file.originalname, {})
          /\ UNCHANGED applied
          /\ res' = {Accepted(req, jobId)}

\* POST /process that multer stops, or that carries no file: the error of
\* upload.single goes to the application's error handler, and a request
\* without a file is answered by the route handler.
PostRejected ==
    /\ \E req \in OtherRequests : \E o \in uploadSingle(req) :
          res' = { IF o.ok THEN NoFileUploaded(req) ELSE appErrorHandler(req, o.val) }
    /\ UNCHANGED <<jobs, task, disk, calls, statusLog, returned, applied>>

\* Variant: the status handler gives up on a job it finds still processing
\* and marks it failed.
GetStatusExpires(jobId) ==
    /\ UNCHANGED applied
    /\ res' = {StatusResponse(jobId, getJobStatus(jobId))}
    /\ jobs' = IF jobId \in JobKeys /\ JobsGet(jobs, jobId).status = "processing"
               THEN JobsSet(jobs, jobId, [JobsGet(jobs, jobId) EXCEPT !.status = "failed"])
               ELSE jobs
    /\ UNCHANGED <<task, disk, calls, statusLog, returned>>

\* GET /:jobId/status
GetStatus(jobId) ==
    /\ UNCHANGED applied
    /\ res' = {StatusResponse(jobId, getJobStatus(jobId))}
    /\ UNCHANGED <<jobs, task, disk, calls, statusLog, returned>>

\* GET /jobs
GetJobs ==
    /\ UNCHANGED applied
    /\ res' = {JobsResponse(getAllJobs)}
    /\ UNCHANGED <<jobs, task, disk, calls, statusLog, returned>>

\* Variant: the answer of isValidPDF is not looked at.
IsValidPDFSettlesUngated(id) ==
    /\ Awaiting(id, "isValidPDF")
    /\ \E o \in isValidPDF(disk, task[id].filePath) :
          CallNext(id, Settled("isValidPDF", o), "extractText",
                   [task[id] EXCEPT !.isValid = {o.val}])

\* await this.pdfService.isValidPDF(filePath) settles.
IsValidPDFSettles(id) ==
    /\ Awaiting(id, "isValidPDF")
    /\ \E o \in isValidPDF(disk, task[id].filePath) :
          IF o.val
          THEN CallNext(id, Settled("isValidPDF", o), "extractText",
                        [task[id] EXCEPT !.isValid = {o.val}])
          ELSE Catch(id, Settled("isValidPDF", o), [task[id] EXCEPT !.isValid = {o.val}],
                     InvalidPdfError)

\* Variant: a failed text extraction is swallowed and the pipeline goes on
\* with an empty text.
ExtractTextSettlesSwallow(id) ==
    /\ Awaiting(id, "extractText")
    /\ \E o \in extractText(disk, task[id].filePath) :
          CallNext(id, Settled("extractText", o), "extractContractData",
                   [task[id] EXCEPT !.contractText = IF o.ok THEN {o.val} ELSE {""}])

\* await this.pdfService.extractText(filePath) settles.
ExtractTextSettles(id) ==
    /\ Awaiting(id, "extractText")
    /\ \E o \in extractText(disk, task[id].filePath) :
          IF o.ok
          THEN CallNext(id, Settled("extractText", o), "extractContractData",
                        [task[id] EXCEPT !.contractText = {o.val}])
          ELSE Catch(id, Settled("extractText", o), task[id], o.val)

\* await this.aiService.extractContractData(contractText) settles.
ExtractContractDataSettles(id) ==
    /\ Awaiting(id, "extractContractData")
    /\ \E text \in task[id].contractText : \E o \in extractContractData(text) :
          IF o.ok
          THEN CallNext(id, Settled("extractContractData", o), "createContractPage",
                        [task[id] EXCEPT !.contractData = {o.val},
                                         !.targetUrl = {JobsGet(jobs, id).targetConfluenceUrl}])
          ELSE Catch(id, Settled("extractContractData", o), task[id], o.val)

\* await this.confluenceService.createContractPage(...) settles.
CreateContractPageSettles(id) ==
    /\ Awaiting(id, "createContractPage")
    /\ \E data \in task[id].contractData : \E targetUrl \in task[id].targetUrl :
       \E o \in createContractPage(data, targetUrl) :
          IF o.ok
          THEN Complete(id, Settled("createContractPage", o), o.val)
          ELSE Catch(id, Settled("createContractPage", o), task[id], o.val)

\* Variant: the removal inside the try block has no catch() of its own, so
\* its rejection is caught by the catch block of executeProcessing.
UnlinkSettlesUncaught(id) ==
    /\ Awaiting(id, "unlink")
    /\ \E o \in unlink(disk, task[id].filePath) :
          IF o.ok \/ JobsGet(jobs, id).status = "failed"
          THEN /\ disk' = IF o.ok THEN Remove(disk, task[id].filePath) ELSE disk
               /\ calls' = [calls EXCEPT ![id] = Append(@, Settled("unlink", o))]
               /\ task' = [task EXCEPT ![id].pc = "done"]
               /\ UNCHANGED applied
               /\ res' = {}
               /\ UNCHANGED <<jobs, statusLog, returned>>
          ELSE Catch(id, Settled("unlink", o), task[id], o.val)

\* await fs.unlink(filePath).catch(...) settles: a rejection is logged by the
\* handler given to catch(), and executeProcessing returns either way.
UnlinkSettles(id) ==
    /\ Awaiting(id, "unlink")
    /\ \E o \in unlink(disk, task[id].filePath) :
          /\ disk' = IF o.ok THEN Remove(disk, task[id].filePath) ELSE disk
          /\ calls' = [calls EXCEPT ![id] = Append(@, Settled("unlink", o))]
    /\ task' = [task EXCEPT ![id].pc = "done"]
    /\ UNCHANGED applied
    /\ res' = {}
    /\ UNCHANGED <<jobs, statusLog, returned>>

\* The provider call the task of job `id` awaits turns out never to settle:
\* the task stays at its await for good.
ProviderHangs(id) ==
    /\ \E fn \in Providers : Awaiting(id, fn)
    /\ task' = [task EXCEPT ![id].pc = "hung"]
    /\ UNCHANGED applied
    /\ res' = {}
    /\ UNCHANGED <<jobs, disk, calls, statusLog, returned>>

\* One step of the background task of job `id`.
TaskStep(id) ==
    \/ IsValidPDFSettles(id)
    \/ ExtractTextSettles(id)
    \/ ExtractContractDataSettles(id)
    \/ CreateContractPageSettles(id)
    \/ UnlinkSettles(id)

Init ==
    /\ jobs = <<>>
    /\ task = <<>>
    /\ disk = <<>>
    /\ calls = <<>>
    /\ statusLog = <<>>
    /\ returned = <<>>
    /\ res = {}
    /\ applied = {}

Next ==
    \/ PostProcess
    \/ \E id \in JobIds : IsValidPDFSettles(id)
    \/ \E id \in JobIds : ExtractTextSettles(id)
    \/ \E id \in JobIds : ExtractContractDataSettles(id)
    \/ \E id \in JobIds : CreateContractPageSettles(id)
    \/ \E id \in JobIds : UnlinkSettles(id)

Spec == Init /\ [][Next]_vars

\* The service with provider calls that may never settle; every other call
\* settles and its task is resumed.
HangNext ==
    \/ Next
    \/ \E id \in JobIds : ProviderHangs(id)

HangSpec == Init /\ [][HangNext]_vars /\ \A id \in JobIds : WF_vars(TaskStep(id))

\* The service with the uploads that are turned away.
UploadNext ==
    \/ Next
    \/ PostRejected

UploadSpec == Init /\ [][UploadNext]_vars

\* The service with status queries.
StatusNext ==
    \/ Next
    \/ \E jobId \in RequestIds : GetStatus(jobId)

StatusSpec == Init /\ [][StatusNext]_vars

\* The service with list queries.
ListNext ==
    \/ Next
    \/ GetJobs

ListSpec == Init /\ [][ListNext]_vars

\* Every call made on a job's behalf eventually returns or throws, and the
\* event loop then runs the task's continuation.
FairSpec == Spec /\ \A id \in JobIds : WF_vars(TaskStep(id))

----------------------------------------------------------------------------
\* What the properties below speak of.

Job(id) == JobsGet(jobs, id)

Present(field) == field # {}

Ended(id) == \E i \in 1..Len(jobs) : jobs[i].id = id /\ Terminal(jobs[i].status)

InFlight(id) == id \in JobKeys /\ ~Ended(id)

\* How often `fn` was called on behalf of job `id`.
CallCount(id, fn) == Cardinality({ i \in 1..Len(calls[id]) : calls[id][i] = Call(fn) })

Returned(fn) == [ev |-> "return", fn |-> fn]

Threw(fn) == [ev |-> "throw", fn |-> fn]

Occurs(id, event) == \E i \in 1..Len(calls[id]) : calls[id][i] = event

\* The calls of pipeline stages made for job `id`, in the order made.
StageCalls(id) ==
    LET IsStageCall(e) == e.ev = "call" /\ e.fn # "unlink"
    IN  SelectSeq(calls[id], IsStageCall)

----------------------------------------------------------------------------
(* C1: every job that processContract created reaches status 'completed'  *)
(* or 'failed', provided each call made on its behalf returns or throws,   *)
(* whatever the other jobs do.                                             *)
EveryJobEnds == \A id \in JobIds : [](id \in JobKeys => <>Ended(id))

\* A job has ended while another one is still in flight.
EndedBesideInFlight == \E a \in JobKeys, b \in JobKeys : Ended(a) /\ InFlight(b)

(* C2: in every state, for every job, contractData and confluencePageUrl   *)
(* are both present iff status is 'completed', error is present iff status *)
(* is 'failed', and error is never present together with a result field.   *)
ResultFieldsMatchStatus ==
    \A i \in 1..Len(jobs) :
        LET job == jobs[i] IN
        /\ (Present(job.contractData) /\ Present(job.confluencePageUrl)) <=> job.status = "completed"
        /\ Present(job.error) <=> job.status = "failed"
        /\ ~(Present(job.error) /\ (Present(job.contractData) \/ Present(job.confluencePageUrl)))

\* One job is completed, another failed.
CompletedAndFailedJobs ==
    \E i \in 1..Len(jobs), k \in 1..Len(jobs) :
        /\ jobs[i].status = "completed" /\ Present(jobs[i].contractData)
        /\ jobs[k].status = "failed" /\ Present(jobs[k].error)

(* C3: the status values a job takes are, in order, a prefix of pending,   *)
(* processing and then one of completed or failed; the job's status is the *)
(* last of them, so an ended job is never pending or processing again.     *)
StatusOnlyAdvances ==
    \A id \in JobKeys :
        LET log == statusLog[id] IN
        /\ Len(log) \in 1..3
        /\ log[1] = "pending"
        /\ Len(log) >= 2 => log[2] = "processing"
        /\ Len(log) >= 3 => Terminal(log[3])
        /\ Job(id).status = log[Len(log)]

\* A job went through pending, processing, completed and its cleanup failed;
\* another went through pending, processing, failed.
BothStatusPaths ==
    \E a \in JobKeys, b \in JobKeys :
        /\ statusLog[a] = <<"pending", "processing", "completed">>
        /\ Occurs(a, Threw("unlink"))
        /\ statusLog[b] = <<"pending", "processing", "failed">>

(* C4 as stated: when processContract returns a job id, the job exists     *)
(* with status 'pending', no pipeline stage has been started, and a status *)
(* query made right after the return finds the job 'pending'.              *)
ReturnsWhilePending ==
    \A k \in 1..Len(returned) :
        /\ returned[k].jobId \in JobKeys
        /\ returned[k].status = "pending"
        /\ returned[k].calls = <<>>

(* C4 as amended: when processContract returns a job id, the job exists    *)
(* with status 'processing' and isValidPDF has been called for it and      *)
(* nothing else; no stage has been awaited, and a status query made right  *)
(* after the return finds the job 'processing'.                            *)
ReturnsWhileProcessing ==
    \A k \in 1..Len(returned) :
        /\ returned[k].jobId \in JobKeys
        /\ returned[k].status = "processing"
        /\ returned[k].calls = <<Call("isValidPDF")>>

\* processContract has just returned: the job is as the caller got it.
JustReturned ==
    /\ Len(returned) > 0
    /\ LET last == returned[Len(returned)] IN
          /\ getJobStatus(last.jobId) # {}
          /\ Job(last.jobId).status = last.status
          /\ calls[last.jobId] = last.calls

StagesInOrder ==
    \A id \in JobKeys :
        /\ Len(StageCalls(id)) <= Len(StageOrder)
        /\ \A k \in 1..Len(StageCalls(id)) : StageCalls(id)[k] = Call(StageOrder[k])
        /\ \A i \in 1..Len(calls[id]) : \A k \in 2..Len(StageOrder) :
              calls[id][i] = Call(StageOrder[k]) =>
                  i > 1 /\ calls[id][i - 1] = Returned(StageOrder[k - 1])
        /\ CallCount(id, "extractText") > 0 => task[id].isValid = {TRUE}

\* The job added second ran all four stages while the job added first still
\* waits for its first.
LaterJobOvertakes ==
    /\ Len(jobs) = 2
    /\ task[jobs[1].id].pc = "isValidPDF"
    /\ Len(StageCalls(jobs[2].id)) = 4
    /\ jobs[2].status = "completed"

(* C7: when extractText, extractContractData or createContractPage throws  *)
(* for a job, the job is 'failed', its reason is the message of the thrown *)
(* Error, the stage was called once, and no stage is called after it.      *)
ProviderFailureFailsJob ==
    \A id \in JobKeys : \A fn \in Providers :
        Occurs(id, Threw(fn)) =>
            /\ Job(id).status = "failed"
            /\ \A e \in task[id].caught : e.isError => Job(id).error = {e.message}
            /\ Present(task[id].caught)
            /\ CallCount(id, fn) = 1
            /\ \A i \in 1..Len(calls[id]) : \A k \in (i + 1)..Len(calls[id]) :
                  calls[id][i] = Threw(fn) => calls[id][k].fn = "unlink"

\* Publishing failed with "quota exceeded" and the job reports that reason.
QuotaExceeded ==
    \E id \in JobKeys :
        /\ Occurs(id, Threw("createContractPage"))
        /\ task[id].caught = {NewError("quota exceeded")}
        /\ Job(id).status = "failed"
        /\ Job(id).error = {"quota exceeded"}

\* The upload of job `id` was asked to be removed at most once, and once when
\* the job has ended.
RemovalCounted(id) ==
    /\ CallCount(id, "unlink") <= 1
    /\ Ended(id) => CallCount(id, "unlink") = 1
    /\ task[id].pc = "done" =>
          Cardinality({ i \in 1..Len(calls[id]) : calls[id][i].fn = "unlink" }) = 2

\* A step in which the removal asked for job `id` is rejected.
RemovalRejected(id) ==
    /\ Len(calls'[id]) > Len(calls[id])
    /\ calls'[id][Len(calls[id]) + 1] = Threw("unlink")

(* C8: for every job, completed or failed, the removal of its upload is    *)
(* attempted exactly once, and a removal that fails leaves the job record  *)
(* as it was.                                                              *)
UploadRemovedOnce ==
    /\ [](\A id \in JobKeys : RemovalCounted(id))
    /\ [][\A id \in JobKeys : RemovalRejected(id) => JobsGet(jobs', id) = Job(id)]_vars

\* The removal failed for a completed job and for a failed job, and both
\* tasks are over.
RemovalFailedBothWays ==
    \E a \in JobKeys, b \in JobKeys :
        /\ Job(a).status = "completed" /\ Job(b).status = "failed"
        /\ task[a].pc = "done" /\ task[b].pc = "done"
        /\ calls[a][Len(calls[a])] = Threw("unlink")
        /\ calls[b][Len(calls[b])] = Threw("unlink")
        /\ CallCount(a, "unlink") = 1 /\ CallCount(b, "unlink") = 1

\* The record of an ended job is what the job's own upload and the outcomes
\* of the job's own calls make it.
OwnOutcome(id) ==
    LET t == task[id]
        job == Job(id)
    IN  /\ t.contractText \subseteq { u.text : u \in { f \in Uploads : f.originalname = job.filename } }
        /\ t.contractData \subseteq { [contractTitle |-> text] : text \in t.contractText }
        /\ IF Present(t.caught)
           THEN /\ job.status = "failed"
                /\ job.error = { ErrorMessage(e) : e \in t.caught }
                /\ ~Present(job.contractData) /\ ~Present(job.confluencePageUrl)
           ELSE /\ job.status = "completed"
                /\ job.contractData = t.contractData /\ Present(job.contractData)
                /\ job.confluencePageUrl = t.confluenceUrl /\ Present(job.confluencePageUrl)
                /\ ~Present(job.error)

\* A step changes the record of job `id` only if it is a step of that job's
\* own task, and then no other task moves.
OnlyOwnTaskWrites(id) ==
    JobsGet(jobs', id) # Job(id) =>
        /\ task'[id].pc # task[id].pc
        /\ \A other \in JobKeys \ {id} : task'[other] = task[other]

EachUploadOneJob ==
    /\ Len(jobs) = Len(returned)
    /\ DOMAIN task = JobKeys
    /\ \A k \in 1..Len(jobs) :
          /\ k <= Len(returned) => jobs[k].id = returned[k].jobId
          /\ \A l \in 1..Len(jobs) : k # l => jobs[k].id # jobs[l].id
          /\ CallCount(jobs[k].id, "isValidPDF") = 1

\* The same document was uploaded twice, and both jobs ran the whole
\* pipeline.
SameDocumentTwice ==
    /\ Len(jobs) = 2
    /\ jobs[1].filename = jobs[2].filename
    /\ jobs[1].id # jobs[2].id
    /\ \A k \in 1..2 : jobs[k].status = "completed" /\ Len(StageCalls(jobs[k].id)) = 4

\* The target the request that made `job` carried in its body.
SuppliedTarget(job) ==
    UNION { r.body.targetConfluenceUrl : r \in { q \in Requests : q.file.originalname = job.filename } }

(* C11: the target a caller sends with an upload is stored on the job and   *)
(* is the target argument createContractPage is called with for that job;  *)
(* when the caller sends none, the job has none and createContractPage is  *)
(* called with none.                                                       *)
TargetPassedThrough ==
    \A id \in JobKeys :
        /\ Job(id).targetConfluenceUrl = SuppliedTarget(Job(id))
        /\ CallCount(id, "createContractPage") > 0 =>
              task[id].targetUrl = {SuppliedTarget(Job(id))}

\* The jobs are the submissions, one each and in their order, and a list
\* response shows just them.
ListedAsSubmitted ==
    /\ Len(getAllJobs) = Len(returned)
    /\ \A k \in 1..Len(getAllJobs) : getAllJobs[k].id = returned[k].jobId
    /\ \A r \in res :
          r.req.route = "GET /jobs" =>
              /\ r.body.total = Len(returned)
              /\ Len(r.body.jobs) = Len(returned)
              /\ \A k \in 1..Len(returned) :
                    /\ r.body.jobs[k].id = returned[k].jobId
                    /\ r.body.jobs[k].status = jobs[k].status

(* C12: getAllJobs holds every submitted job once, in submission order; no *)
(* step removes a job or moves it to another position; and the total of a  *)
(* list response is the number of submissions made so far.                 *)
JobsKeepSubmissionOrder ==
    /\ []ListedAsSubmitted
    /\ [][ /\ Len(jobs') >= Len(jobs)
           /\ \A k \in 1..Len(jobs) : jobs'[k].id = jobs[k].id ]_vars

\* A list response shows two jobs in submission order, the first failed and
\* the second completed after it was added.
ListedAfterUpdates ==
    \E r \in res :
        /\ r.req.route = "GET /jobs"
        /\ r.body.total = 2
        /\ r.body.jobs[1].id = returned[1].jobId /\ r.body.jobs[1].status = "failed"
        /\ r.body.jobs[2].id = returned[2].jobId /\ r.body.jobs[2].status = "completed"
        /\ returned[1].jobId > returned[2].jobId

\* The responses to uploads among `res`.
UploadResponses == { r \in res : r.req.route = "POST /process" }

\* The file part of an upload that multer or the handler turned away.
RejectedPart(r) == IF "part" \in DOMAIN r.req.upload THEN r.req.upload.part ELSE {}

(* C13: an upload with a PDF-typed file is answered 202 with the job id    *)
(* and the status URL of a job that exists; an upload without a file and   *)
(* an upload whose file is not PDF-typed are answered 400, and the jobs    *)
(* are then still just those of the accepted uploads.                      *)
UploadAnswers202Or400 ==
    \A r \in UploadResponses :
        /\ "file" \in DOMAIN r.req.upload =>
              /\ r.status = 202
              /\ r.body.jobId \in JobKeys
              /\ r.body.statusUrl = "/api/contracts/" \o ToString(r.body.jobId) \o "/status"
        /\ ("part" \in DOMAIN r.req.upload /\ RejectedPart(r) = {}) =>
              r.status = 400 /\ Len(jobs) = Len(returned)
        /\ \A part \in RejectedPart(r) :
              part.mimetype # "application/pdf" =>
                  r.status = 400 /\ Len(jobs) = Len(returned)

(* C14: an upload whose PDF-typed file is larger than the size limit is    *)
(* answered 413, and the jobs are then still just those of the accepted    *)
(* uploads.                                                                *)
TooLargeAnswers413 ==
    \A r \in UploadResponses : \A part \in RejectedPart(r) :
        (part.mimetype = "application/pdf" /\ part.sizeMB > MaxFileSizeMB) =>
            r.status = 413 /\ Len(jobs) = Len(returned)

\* The responses to status queries among `res`.
StatusResponses == { r \in res : r.req.route = "GET /:jobId/status" }

\* The ids processContract has returned so far.
ReturnedIds == { returned[k].jobId : k \in 1..Len(returned) }

(* C15: a status query is answered 404 when its id was never returned by a *)
(* submission and 200 when it was, whatever the status of the job, which   *)
(* the answer then reports as it is.                                       *)
StatusAnswers200Or404 ==
    \A r \in StatusResponses :
        IF r.req.jobId \in ReturnedIds
        THEN r.status = 200 /\ r.body.id = r.req.jobId /\ r.body.status = Job(r.req.jobId).status
        ELSE r.status = 404

\* A query about a failed job was answered 200, and one id is still unknown.
FailedJobAnswered200 ==
    \E r \in StatusResponses :
        /\ r.status = 200
        /\ r.body.status = "failed"
        /\ ReturnedIds # JobIds

(* C16: the answer to a status query carries confluencePageUrl and         *)
(* contractData exactly when the job is 'completed' at the time of the     *)
(* query, error exactly when it is 'failed', and none of the three while   *)
(* it is 'pending' or 'processing'; what it carries is what the job holds. *)
StatusResponseShaped ==
    \A r \in StatusResponses :
        r.status = 200 =>
            LET job == Job(r.req.jobId) IN
            /\ r.body.status = job.status
            /\ Present(r.body.confluencePageUrl) <=> job.status = "completed"
            /\ Present(r.body.contractData) <=> job.status = "completed"
            /\ Present(r.body.error) <=> job.status = "failed"
            /\ job.status = "completed" =>
                  /\ r.body.confluencePageUrl = job.confluencePageUrl
                  /\ r.body.contractData = job.contractData
            /\ job.status = "failed" => r.body.error = job.error

\* A completed job was asked about while another job was still processing.
CompletedJobAnswered ==
    \E r \in StatusResponses :
        /\ r.status = 200
        /\ r.body.status = "completed"
        /\ Present(r.body.confluencePageUrl) /\ Present(r.body.contractData)
        /\ ~Present(r.body.error)
        /\ \E id \in JobKeys : Job(id).status = "processing"

\* A step in which the catch block of the task of job `id` runs.
Caught(id) == id \in DOMAIN task /\ task'[id].caught # task[id].caught

(* C17: a failing stage never reaches the upload request: every accepted   *)
(* upload is answered 202 with the id processContract returned, and a step *)
(* in which a stage's error is caught sends no response, leaves what       *)
(* processContract returned untouched and shows only as the job being      *)
(* 'failed' with its reason.                                               *)
StageErrorsStayInJob ==
    /\ [](\A r \in UploadResponses :
              "file" \in DOMAIN r.req.upload =>
                  r.status = 202 /\ r.body.jobId = returned[Len(returned)].jobId)
    /\ [][\A id \in JobKeys :
              Caught(id) =>
                  /\ res' = {}
                  /\ returned' = returned
                  /\ JobsGet(jobs', id).status = "failed"
                  /\ JobsGet(jobs', id).error = { ErrorMessage(e) : e \in task'[id].caught }]_vars

\* A stage of the job submitted first threw after its id had been returned,
\* and the next upload is answered 202.
AcceptedAfterStageError ==
    /\ Len(returned) = 2
    /\ \E fn \in Providers : Occurs(returned[1].jobId, Threw(fn))
    /\ Job(returned[1].jobId).status = "failed"
    /\ \E r \in UploadResponses : r.status = 202 /\ r.body.jobId = returned[2].jobId

\* The task of job `id` waits for a provider call that never settles.
Hung(id) == id \in DOMAIN task /\ task[id].pc = "hung"

\* Uploads and status queries can be handled in this state.
Served ==
    /\ Len(returned) < MaxJobs => ENABLED PostProcess
    /\ \A jobId \in RequestIds : ENABLED GetStatus(jobId)

(* C18: when provider calls of some jobs never return, just those jobs     *)
(* stay 'processing': every other job, whose calls return or throw, ends   *)
(* 'completed' or 'failed', and uploads and status queries are still       *)
(* handled.                                                                *)
HungCallStallsOnlyItsJob ==
    /\ <>[](\A id \in JobKeys : Ended(id) \/ Hung(id))
    /\ [](\A id \in JobKeys : Hung(id) => Job(id).status = "processing" /\ ~Ended(id))
    /\ []((\E id \in JobKeys : Hung(id)) => Served)

\* The job submitted first is stuck in a provider call, and the job
\* submitted after it has run to its end.
EndedBesideHung ==
    /\ Len(returned) = 2
    /\ Hung(returned[1].jobId)
    /\ Job(returned[2].jobId).status = "completed"
    /\ task[returned[2].jobId].pc = "done"

\* The texts of the uploads named like job `id`.
UploadedText(id) == { u.text : u \in { f \in Uploads : f.originalname = Job(id).filename } }

CompletedAtWrittenOnce ==
    \A id \in JobKeys :
        IF Terminal(Job(id).status)
        THEN Present(Job(id).completedAt) /\ task[id].completedAtWrites = 1
        ELSE ~Present(Job(id).completedAt) /\ task[id].completedAtWrites = 0

\* One job is stamped and over, completed or failed with a failed removal
\* behind it, while another is not yet stamped.
StampedBesideUnstamped ==
    \E a \in JobKeys, b \in JobKeys :
        /\ task[a].pc = "done" /\ Occurs(a, Threw("unlink"))
        /\ Present(Job(a).completedAt) /\ task[a].completedAtWrites = 1
        /\ Job(b).status = "processing" /\ ~Present(Job(b).completedAt)

\* The fields of a job the pipeline assigns.
MutableFields(job) ==
    [ status |-> job.status,
      completedAt |-> job.completedAt,
      contractData |-> job.contractData,
      confluencePageUrl |-> job.confluencePageUrl,
      error |-> job.error ]

\* A step that answers a list query.
QueryStep == \E r \in res' : r.req.route = "GET /jobs"

\* The status handler, run in this state for any id, leaves every job as it
\* is.
StatusQueryWritesNothing ==
    \A jobId \in RequestIds : ~ENABLED (GetStatus(jobId) /\ jobs' # jobs)

\* A step in which processContract runs.
SubmitStep == Len(returned') > Len(returned)

(* C21: status, completedAt, contractData, confluencePageUrl and error of  *)
(* a job change only in a step of that job's own background task: a status *)
(* or list query changes no job, a submission changes no job that already  *)
(* exists, and a step of one task changes no other job.                    *)
OnlyOwnTaskWritesJob ==
    /\ []StatusQueryWritesNothing
    /\ [][ /\ QueryStep => jobs' = jobs
           /\ SubmitStep => \A k \in 1..Len(jobs) : jobs'[k] = jobs[k]
           /\ \A k \in 1..Len(jobs) :
                 MutableFields(jobs'[k]) # MutableFields(jobs[k]) =>
                     /\ task'[jobs[k].id].pc # task[jobs[k].id].pc
                     /\ \A other \in JobKeys \ {jobs[k].id} : task'[other] = task[other]
                     /\ ~QueryStep /\ ~SubmitStep ]_vars

\* A list query finds one job still processing after another job has been
\* written to by its task.
QueriedBetweenWrites ==
    \E r \in res :
        /\ r.req.route = "GET /jobs"
        /\ r.body.total = 2
        /\ r.body.jobs[1].status = "processing"
        /\ Terminal(r.body.jobs[2].status)

\* The fields of a job processContract sets and the pipeline only reads.
FixedFields(job) ==
    [ id |-> job.id,
      filename |-> job.filename,
      createdAt |-> job.createdAt,
      targetConfluenceUrl |-> job.targetConfluenceUrl ]

(* C22: id, filename, createdAt and targetConfluenceUrl of a job are set   *)
(* when processContract creates it, and no later step, of any task or of a *)
(* query, changes them.                                                    *)
FixedFieldsNeverChange ==
    /\ []StatusQueryWritesNothing
    /\ [][\A k \in 1..Len(jobs) : FixedFields(jobs'[k]) = FixedFields(jobs[k])]_vars

\* A job has run the whole pipeline and its upload is removed; a list query
\* shows it under the id and name it was created with.
FixedFieldsAfterRun ==
    \E r \in res : \E k \in 1..Len(jobs) :
        /\ r.req.route = "GET /jobs"
        /\ jobs[k].status = "completed" /\ task[jobs[k].id].pc = "done"
        /\ jobs[k].id = returned[k].jobId
        /\ jobs[k].filename = "nda.pdf"
        /\ r.body.jobs[k].id = jobs[k].id /\ r.body.jobs[k].filename = "nda.pdf"

(***************************************************************************)
(* The collaborators taken by themselves.  A string is the sequence of its *)
(* characters; a literal of the source is written as one token, which is   *)
(* neither white space nor a line break.  A JavaScript value carries its   *)
(* typeof in t; an absent property is the empty set.                       *)
(***************************************************************************)
MaxTextLen == 4

Chars == {"a", " ", "\n"}

WhiteSpace == {" ", "\n"}

RECURSIVE StringsUpTo(_)
StringsUpTo(n) ==
    IF n = 0 THEN {<<>>}
    ELSE LET shorter == StringsUpTo(n - 1)
         IN  shorter \cup {Append(s, c) : s \in {t \in shorter : Len(t) = n - 1}, c \in Chars}

Texts == StringsUpTo(MaxTextLen)

Min(a, b) == IF a < b THEN a ELSE b

\* String.prototype.substring(start, end) with 0 <= start <= end
substring(s, start, end) == SubSeq(s, start + 1, Min(end, Len(s)))

\* String.prototype.split(separator) for a one-character separator
RECURSIVE split(_, _)
split(s, sep) ==
    IF \E i \in 1..Len(s) : s[i] = sep
    THEN LET i == CHOOSE i \in 1..Len(s) : s[i] = sep /\ \A j \in 1..(i - 1) : s[j] # sep
         IN  <<SubSeq(s, 1, i - 1)>> \o split(SubSeq(s, i + 1, Len(s)), sep)
    ELSE <<s>>

\* String.prototype.trim()
RECURSIVE trim(_)
trim(s) ==
    IF s = <<>> THEN s
    ELSE IF Head(s) \in WhiteSpace THEN trim(Tail(s))
    ELSE IF s[Len(s)] \in WhiteSpace THEN trim(SubSeq(s, 1, Len(s) - 1))
    ELSE s

\* a || b on strings: the empty string is falsy
OrElse(a, b) == IF a # <<>> THEN a ELSE b

Lit(token) == <<token>>

Str(s) == [t |-> "string", v |-> s]
Num(n) == [t |-> "number", v |-> n]
Arr(elements) == [t |-> "array", v |-> elements]
Obj(properties) == [t |-> "object", v |-> properties]

TitleLimit == 100
PreviewLimit == 150
TemplateLimit == 500
DemoAmount == 50000

generateTemplateData(contractText) ==
    Lit("DEMO TEMPLATE DATA ... EXTRACTED TEXT PREVIEW:") \o substring(contractText, 0, TemplateLimit)
        \o Lit("... Note: Configure ANTHROPIC_API_KEY to parse contracts into your custom template format.")

\* a variant that leaves the title out when the first line trims to nothing
generateDemoDataUntitled(contractText) ==
    LET firstLine == OrElse(substring(split(contractText, "\n")[1], 0, TitleLimit),
                            Lit("Sample Contract"))
        rest == [effectiveDate |-> Str(Lit("2025-01-01")),
                 parties |-> Arr(<< Obj([name |-> Str(Lit("Demo Company LLC")),
                                         role |-> Str(Lit("provider"))]),
                                    Obj([name |-> Str(Lit("Sample Client Corp")),
                                         role |-> Str(Lit("recipient"))]) >>),
                 keyTerms |-> Arr(<<>>),
                 obligations |-> Arr(<<>>)]
    IN  IF trim(firstLine) = <<>> THEN Obj(rest)
        ELSE Obj([contractTitle |-> Str(trim(firstLine))] @@ rest)

generateDemoData(contractText) ==
    LET firstLine == OrElse(substring(split(contractText, "\n")[1], 0, TitleLimit),
                            Lit("Sample Contract"))
    IN  Obj([contractTitle |-> Str(OrElse(trim(firstLine), Lit("Demo Service Agreement"))),
             contractNumber |-> Str(Lit("DEMO-2025-001")),
             effectiveDate |-> Str(Lit("2025-01-01")),
             expirationDate |-> Str(Lit("2026-01-01")),
             parties |-> Arr(<< Obj([name |-> Str(Lit("Demo Company LLC")),
                                     role |-> Str(Lit("provider")),
                                     address |-> Str(Lit("123 Demo Street, Demo City, DC 12345"))]),
                                Obj([name |-> Str(Lit("Sample Client Corp")),
                                     role |-> Str(Lit("recipient")),
                                     address |-> Str(Lit("456 Sample Avenue, Sample Town, ST 67890"))]) >>),
             contractValue |-> Obj([amount |-> Num(DemoAmount), currency |-> Str(Lit("USD"))]),
             keyTerms |-> Arr(<< Str(Lit("Services to be provided as outlined in Exhibit A")),
                                 Str(Lit("Payment terms: Net 30 days")),
                                 Str(Lit("Confidentiality obligations apply to both parties")),
                                 Str(Lit("Contract text preview: ")
                                     \o substring(contractText, 0, PreviewLimit) \o Lit("...")) >>),
             obligations |-> Arr(<< Obj([party |-> Str(Lit("Demo Company LLC")),
                                         description |-> Str(Lit("Provide services as specified in the contract"))]),
                                    Obj([party |-> Str(Lit("Sample Client Corp")),
                                         description |-> Str(Lit("Make timely payments and provide necessary access"))]) >>),
             renewalTerms |-> Str(Lit("Auto-renewal for 1 year unless terminated with 30 days notice")),
             terminationClauses |-> Arr(<< Str(Lit("Either party may terminate with 30 days written notice")),
                                           Str(Lit("Immediate termination allowed for material breach")) >>),
             governingLaw |-> Str(Lit("State of Demo")),
             specialProvisions |-> Arr(<< Str(Lit("This is DEMO DATA - no real AI extraction was performed")),
                                          Str(Lit("Configure ANTHROPIC_API_KEY in .env for real extraction")) >>),
             aiSummary |-> Str(Lit("EXECUTIVE SUMMARY (Demo Mode)")),
             templateData |-> Str(generateTemplateData(contractText))])

(***************************************************************************)
(* The schema, as zod builds it: z.object does not reject properties the   *)
(* shape does not name, and an optional property may be absent.            *)
(***************************************************************************)
ZString == [z |-> "string"]
ZNumber == [z |-> "number"]
ZEnum(values) == [z |-> "enum", values |-> values]
ZArray(element) == [z |-> "array", element |-> element]
ZObject(shape) == [z |-> "object", shape |-> shape]
ZOptional(inner) == [z |-> "optional", inner |-> inner]

Roles == {Lit("provider"), Lit("recipient"), Lit("other")}

ContractDataSchema ==
    ZObject([contractTitle |-> ZString,
             contractNumber |-> ZOptional(ZString),
             effectiveDate |-> ZString,
             expirationDate |-> ZOptional(ZString),
             parties |-> ZArray(ZObject([name |-> ZString,
                                         role |-> ZEnum(Roles),
                                         address |-> ZOptional(ZString)])),
             contractValue |-> ZOptional(ZObject([amount |-> ZOptional(ZNumber),
                                                  currency |-> ZOptional(ZString)])),
             keyTerms |-> ZArray(ZString),
             obligations |-> ZArray(ZObject([party |-> ZString, description |-> ZString])),
             renewalTerms |-> ZOptional(ZString),
             terminationClauses |-> ZOptional(ZArray(ZString)),
             governingLaw |-> ZOptional(ZString),
             specialProvisions |-> ZOptional(ZArray(ZString))])

\* schema.safeParse(value).success, value being {} for undefined
RECURSIVE Validates(_, _)
Validates(schema, value) ==
    IF schema.z = "optional" THEN value = {} \/ Validates(schema.inner, value)
    ELSE /\ value # {}
         /\ LET v == CHOOSE x \in value : TRUE
            IN  CASE schema.z = "string" -> v.t = "string"
                  [] schema.z = "number" -> v.t = "number"
                  [] schema.z = "enum" -> v.t = "string" /\ v.v \in schema.values
                  [] schema.z = "array" ->
                        /\ v.t = "array"
                        /\ \A i \in 1..Len(v.v) : Validates(schema.element, {v.v[i]})
                  [] schema.z = "object" ->
                        /\ v.t = "object"
                        /\ \A key \in DOMAIN schema.shape :
                              Validates(schema.shape[key],
                                        IF key \in DOMAIN v.v THEN {v.v[key]} ELSE {})

(***************************************************************************)
(* ConfluenceService.  The environment gives each setting or leaves it     *)
(* unset ({}); a setting is a string of tokens, so that includes() can     *)
(* look for the placeholder words.                                         *)
(***************************************************************************)
Envs ==
    [CONFLUENCE_BASE_URL : {{}, {<<"https://", "your-domain", ".atlassian.net">>},
                            {<<"https://", "acme", ".atlassian.net">>}},
     CONFLUENCE_USER_EMAIL : {{}, {<<"your-email", "@example.com">>}, {<<"legal", "@acme.com">>}},
     CONFLUENCE_API_TOKEN : {{}, {Lit("token")}},
     CONFLUENCE_SPACE_KEY : {{}, {Lit("LEGAL")}},
     CONFLUENCE_PARENT_PAGE_ID : {{}, {Lit("42")}}]

\* process.env.X || ''
EnvOrEmpty(setting) == IF setting # {} THEN CHOOSE v \in setting : TRUE ELSE <<>>

\* !x for a string that may be undefined
Falsy(setting) == setting = {} \/ setting = {<<>>}

\* String.prototype.includes for a word that is one token
includes(s, word) == \E i \in 1..Len(s) : s[i] = word

\* the constructor: what the instance keeps
ConfluenceService(env) ==
    LET baseUrl == EnvOrEmpty(env.CONFLUENCE_BASE_URL)
        spaceKey == EnvOrEmpty(env.CONFLUENCE_SPACE_KEY)
        email == env.CONFLUENCE_USER_EMAIL
        apiToken == env.CONFLUENCE_API_TOKEN
        demoMode == \/ baseUrl = <<>>
                    \/ Falsy(email)
                    \/ Falsy(apiToken)
                    \/ spaceKey = <<>>
                    \/ includes(baseUrl, "your-domain")
                    \/ includes(EnvOrEmpty(email), "your-email")
    IN  [baseUrl |-> baseUrl,
         spaceKey |-> spaceKey,
         parentPageId |-> env.CONFLUENCE_PARENT_PAGE_ID,
         demoMode |-> demoMode,
         client |-> IF demoMode THEN {}
                    ELSE {[baseURL |-> baseUrl \o Lit("/wiki/rest/api"),
                           auth |-> [username |-> EnvOrEmpty(email),
                                     password |-> EnvOrEmpty(apiToken)]]}]

\* a property of an object value: {} when the object has none
Prop(object, key) == IF key \in DOMAIN object.v THEN {object.v[key]} ELSE {}

\* if (x) for an optional string property
TruthyProp(object, key) == Prop(object, key) # {} /\ object.v[key].v # <<>>

Without(object, key) == Obj([k \in DOMAIN object.v \ {key} |-> object.v[k]])

\* records the publishing stage can be handed: synthesized ones, one as the
\* schema would strip it, one without a number, one whose title needs escaping
ContractDatas ==
    LET demo == generateDemoData(<<"a", " ", "a">>)
    IN  { demo,
          generateDemoData(<<" ">>),
          Without(Without(demo, "aiSummary"), "templateData"),
          Without(demo, "contractNumber"),
          Obj([demo.v EXCEPT !.contractTitle = Str(<<"<", "a", "\n">>)]) }

TargetUrls == {{}, {<<>>}, {Lit("https://wiki/legal")}}

EncodedChar(c) ==
    CASE c = " " -> "%20"
      [] c = "\n" -> "%0A"
      [] c = "<" -> "%3C"
      [] c = "Demo Service Agreement" -> "Demo%20Service%20Agreement"
      [] c = "Sample Contract" -> "Sample%20Contract"
      [] OTHER -> c

encodeURIComponent(s) == [i \in 1..Len(s) |-> EncodedChar(s[i])]

EscapedChar(c) ==
    CASE c = "&" -> "&amp;"
      [] c = "<" -> "&lt;"
      [] c = ">" -> "&gt;"
      [] OTHER -> c

escape(text) == [i \in 1..Len(text) |-> EscapedChar(text[i])]

RECURSIVE join(_, _)
join(sections, sep) ==
    IF sections = <<>> THEN <<>>
    ELSE IF Len(sections) = 1 THEN sections[1]
    ELSE sections[1] \o <<sep>> \o join(Tail(sections), sep)

buildPageTitle(contractData) ==
    contractData.v.contractTitle.v
        \o (IF TruthyProp(contractData, "contractNumber")
            THEN Lit(" (") \o contractData.v.contractNumber.v \o Lit(")")
            ELSE <<>>)

\* the sections on the summary, the template view, the title and the number
\* are written out; the later sections, which read the other fields of the
\* record in the same way, stand as one token
buildPageContent(contractData) ==
    join(<<Lit("<h1>Contract Summary</h1>")>>
         \o (IF TruthyProp(contractData, "aiSummary")
             THEN <<Lit("<p>") \o escape(contractData.v.aiSummary.v) \o Lit("</p>")>>
             ELSE <<>>)
         \o (IF TruthyProp(contractData, "templateData")
             THEN <<Lit("<pre>") \o escape(contractData.v.templateData.v) \o Lit("</pre>")>>
             ELSE <<>>)
         \o <<Lit("<h2>Basic Information</h2>"),
              Lit("<tr><th>Contract Title</th><td>")
                  \o escape(contractData.v.contractTitle.v) \o Lit("</td></tr>")>>
         \o (IF TruthyProp(contractData, "contractNumber")
             THEN <<Lit("<tr><th>Contract Number</th><td>")
                        \o escape(contractData.v.contractNumber.v) \o Lit("</td></tr>")>>
             ELSE <<>>)
         \o <<Lit("<h2>Parties</h2> ... <h2>Special Provisions</h2>"),
              Lit("<hr/>"),
              Lit("<p><em>This page was automatically generated from contract analysis on ")
                  \o Lit(now) \o Lit("</em></p>")>>,
         "\n")

\* what client.post('/content', pageData) can come to: a response with or
\* without _links.webui, an axios error with or without a message in its
\* response, or another thrown value
RemoteOutcomes ==
    { [ok |-> TRUE, webui |-> {Lit("/spaces/LEGAL/pages/1")}],
      [ok |-> TRUE, webui |-> {}],
      [ok |-> FALSE, isAxiosError |-> TRUE, responseMessage |-> {Lit("Space not found")},
       message |-> Lit(AxiosMessage)],
      [ok |-> FALSE, isAxiosError |-> TRUE, responseMessage |-> {},
       message |-> Lit(AxiosMessage)],
      [ok |-> FALSE, isAxiosError |-> FALSE, responseMessage |-> {}, message |-> Lit(OtherMessage)] }

Logged(service, contractData, targetUrl) ==
    <<Lit("Creating Confluence page for contract: ") \o contractData.v.contractTitle.v>>
    \o (IF ~Falsy(targetUrl)
        THEN <<Lit("Target URL specified: ") \o (CHOOSE u \in targetUrl : TRUE)>>
        ELSE <<>>)

DemoUrl(contractData) ==
    Lit("https://demo.confluence.com/wiki/spaces/DEMO/pages/123456/")
        \o encodeURIComponent(contractData.v.contractTitle.v)

\* a variant of the demo branch that posts the page all the same
createContractPageDemoPosts(service, contractData, targetUrl) ==
    [result |-> Returns(IF ~Falsy(targetUrl) THEN CHOOSE u \in targetUrl : TRUE
                        ELSE DemoUrl(contractData)),
     posts |-> <<[path |-> "/content", client |-> service.client,
                  pageData |-> [title |-> buildPageTitle(contractData)]]>>,
     logs |-> Logged(service, contractData, targetUrl)]

\* createContractPage when this.demoMode holds: nothing is sent
createContractPageDemo(service, contractData, targetUrl) ==
    [result |-> Returns(IF ~Falsy(targetUrl) THEN CHOOSE u \in targetUrl : TRUE
                        ELSE DemoUrl(contractData)),
     posts |-> <<>>,
     logs |-> Logged(service, contractData, targetUrl)]

PageData(service, contractData) ==
    [type |-> "page",
     title |-> buildPageTitle(contractData),
     space |-> [key |-> service.spaceKey],
     body |-> [storage |-> [value |-> buildPageContent(contractData),
                            representation |-> "storage"]],
     ancestors |-> IF ~Falsy(service.parentPageId)
                   THEN {<<[id |-> CHOOSE v \in service.parentPageId : TRUE]>>}
                   ELSE {}]

LiveResult(service, remote) ==
    IF remote.ok
    THEN IF remote.webui # {}
         THEN Returns(service.baseUrl \o Lit("/wiki") \o (CHOOSE w \in remote.webui : TRUE))
         ELSE Throws(NewError(Lit("Cannot read properties of undefined")))
    ELSE IF remote.isAxiosError
         THEN Throws(NewError(Lit("Confluence API error: ")
                              \o (IF ~Falsy(remote.responseMessage)
                                  THEN CHOOSE m \in remote.responseMessage : TRUE
                                  ELSE remote.message)))
         ELSE Throws(NewError(remote.message))

\* a variant of the live branch that answers with the target when one is given
createContractPageLiveTargeted(service, contractData, targetUrl, remote) ==
    [result |-> IF remote.ok /\ remote.webui # {} /\ ~Falsy(targetUrl)
                THEN Returns(CHOOSE u \in targetUrl : TRUE)
                ELSE LiveResult(service, remote),
     posts |-> <<[path |-> "/content", client |-> service.client,
                  pageData |-> PageData(service, contractData)]>>,
     logs |-> Logged(service, contractData, targetUrl)]

\* createContractPage when this.demoMode does not hold: one POST /content
createContractPageLive(service, contractData, targetUrl, remote) ==
    [result |-> LiveResult(service, remote),
     posts |-> <<[path |-> "/content", client |-> service.client,
                  pageData |-> PageData(service, contractData)]>>,
     logs |-> Logged(service, contractData, targetUrl)]

(***************************************************************************)
(* One call of a collaborator: the arguments are drawn at the start, the   *)
(* step makes the call and records what it gave.                           *)
(***************************************************************************)
GenerateDemoDataCalls == {[fn |-> "generateDemoData", contractText |-> text, out |-> {}] : text \in Texts}

CreateContractPageCalls ==
    {[fn |-> "createContractPage", env |-> env, contractData |-> contractData,
      targetUrl |-> targetUrl, remote |-> {}, out |-> {}] :
        env \in Envs, contractData \in ContractDatas, targetUrl \in TargetUrls}

TheCall == CHOOSE c \in applied : TRUE

GenerateDemoDataApplied ==
    /\ applied # {}
    /\ TheCall.fn = "generateDemoData"
    /\ TheCall.out = {}
    /\ applied' = {[TheCall EXCEPT !.out = {generateDemoData(TheCall.contractText)}]}
    /\ UNCHANGED <<jobs, task, disk, calls, statusLog, returned, res>>

CreateContractPageDemoApplied ==
    /\ applied # {}
    /\ TheCall.fn = "createContractPage"
    /\ TheCall.out = {}
    /\ ConfluenceService(TheCall.env).demoMode
    /\ applied' = {[TheCall EXCEPT !.out = {createContractPageDemo(ConfluenceService(TheCall.env),
                                                                   TheCall.contractData,
                                                                   TheCall.targetUrl)}]}
    /\ UNCHANGED <<jobs, task, disk, calls, statusLog, returned, res>>

CreateContractPageLiveApplied ==
    /\ applied # {}
    /\ TheCall.fn = "createContractPage"
    /\ TheCall.out = {}
    /\ ~ConfluenceService(TheCall.env).demoMode
    /\ \E remote \in RemoteOutcomes :
          applied' = {[TheCall EXCEPT !.remote = {remote},
                                      !.out = {createContractPageLive(ConfluenceService(TheCall.env),
                                                                      TheCall.contractData,
                                                                      TheCall.targetUrl,
                                                                      remote)}]}
    /\ UNCHANGED <<jobs, task, disk, calls, statusLog, returned, res>>

UnitCalls == GenerateDemoDataCalls \cup CreateContractPageCalls

UnitInit ==
    /\ jobs = <<>>
    /\ task = <<>>
    /\ disk = <<>>
    /\ calls = <<>>
    /\ statusLog = <<>>
    /\ returned = <<>>
    /\ res = {}
    /\ applied \in {{c} : c \in UnitCalls}

UnitNext ==
    \/ GenerateDemoDataApplied
    \/ CreateContractPageDemoApplied
    \/ CreateContractPageLiveApplied

UnitSpec == UnitInit /\ [][UnitNext]_vars

Synthesized(c) == c.fn = "generateDemoData" /\ c.out # {}

(* C23: in demo mode the record generateDemoData synthesizes validates     *)
(* against ContractDataSchema for every input text, the empty text and a   *)
(* text whose first line is blank included: the required fields are there  *)
(* with the required types and every party role is provider, recipient or  *)
(* other.                                                                  *)
DemoDataValidates ==
    \A c \in applied : Synthesized(c) =>
        LET data == CHOOSE d \in c.out : TRUE
        IN  /\ Validates(ContractDataSchema, c.out)
            /\ \A key \in {"contractTitle", "effectiveDate", "parties", "keyTerms", "obligations"} :
                  key \in DOMAIN data.v
            /\ data.v.contractTitle.t = "string"
            /\ \A i \in 1..Len(data.v.parties.v) : data.v.parties.v[i].v.role.v \in Roles

\* a text whose first line is blank has been given the fallback title and validates
BlankFirstLineSynthesized ==
    \E c \in applied :
        /\ Synthesized(c)
        /\ c.contractText = <<" ", "\n", "a">>
        /\ (CHOOSE d \in c.out : TRUE).v.contractTitle = Str(Lit("Demo Service Agreement"))
        /\ Validates(ContractDataSchema, c.out)

Published(c) == c.fn = "createContractPage" /\ c.out # {}

Given(c) == ~Falsy(c.targetUrl)

(* C24: in demo mode createContractPage returns a locator and sends the    *)
(* remote service nothing: the caller's target when one is given (a        *)
(* non-empty string), the synthetic demo URL otherwise.                    *)
DemoModePublishesNothing ==
    \A c \in applied : Published(c) /\ ConfluenceService(c.env).demoMode =>
        LET o == CHOOSE x \in c.out : TRUE
        IN  /\ o.posts = <<>>
            /\ ConfluenceService(c.env).client = {}
            /\ o.result.ok
            /\ Given(c) => o.result.val \in c.targetUrl
            /\ ~Given(c) =>
                  o.result.val = Lit("https://demo.confluence.com/wiki/spaces/DEMO/pages/123456/")
                                     \o encodeURIComponent(c.contractData.v.contractTitle.v)

\* a demo-mode call with a target, whose other settings are all real but the
\* placeholder base URL, has returned that target
DemoModeReturnedTarget ==
    \E c \in applied :
        /\ Published(c)
        /\ c.env.CONFLUENCE_BASE_URL = {<<"https://", "your-domain", ".atlassian.net">>}
        /\ c.env.CONFLUENCE_USER_EMAIL = {<<"legal", "@acme.com">>}
        /\ c.env.CONFLUENCE_API_TOKEN # {} /\ c.env.CONFLUENCE_SPACE_KEY # {}
        /\ c.targetUrl = {Lit("https://wiki/legal")}
        /\ (CHOOSE x \in c.out : TRUE).result = Returns(Lit("https://wiki/legal"))
        /\ (CHOOSE x \in c.out : TRUE).posts = <<>>

(* C30: outside demo mode createContractPage does nothing with the target  *)
(* but log it: the request sent and the outcome are those of the same call *)
(* made without a target, whatever the remote service answers.             *)
LiveModeIgnoresTarget ==
    \A c \in applied : Published(c) /\ ~ConfluenceService(c.env).demoMode =>
        LET o == CHOOSE x \in c.out : TRUE
            remote == CHOOSE r \in c.remote : TRUE
            untargeted == createContractPageLive(ConfluenceService(c.env), c.contractData, {}, remote)
        IN  /\ Len(o.posts) = 1
            /\ o.posts = untargeted.posts
            /\ o.result = untargeted.result
            /\ o.result.ok => o.result.val \notin c.targetUrl

\* a live call with a target has logged it, posted the page and returned the
\* remote page's URL
LiveTargetOnlyLogged ==
    \E c \in applied :
        /\ Published(c)
        /\ ~ConfluenceService(c.env).demoMode
        /\ c.targetUrl = {Lit("https://wiki/legal")}
        /\ LET o == CHOOSE x \in c.out : TRUE
           IN  /\ o.logs[2] = Lit("Target URL specified: ") \o Lit("https://wiki/legal")
               /\ Len(o.posts) = 1
               /\ o.result = Returns(<<"https://", "acme", ".atlassian.net", "/wiki", "/spaces/LEGAL/pages/1">>)

\* the calls executeProcessing awaits
SuspensionPoints == {"isValidPDF", "extractText", "extractContractData", "createContractPage", "unlink"}

(* C25 as stated: a task is suspended only in extractText,                 *)
(* extractContractData, createContractPage or the cleanup; validation does *)
(* not suspend, so no state shows a task waiting for it and nothing is     *)
(* submitted while a job waits for its validation.                         *)
SuspendedAtFourPointsOnly ==
    \A id \in JobKeys :
        /\ task[id].pc \in (SuspensionPoints \ {"isValidPDF"}) \cup {"done"}
        /\ Awaiting(id, "isValidPDF") => jobs[Len(jobs)].id = id

(* C25 as amended: a task is suspended at five points, the call of         *)
(* isValidPDF included, and nowhere else: while it has not ended its last  *)
(* event is the call it awaits, every earlier call has settled, and it     *)
(* ends with the cleanup settled; a job whose validation is awaited is     *)
(* 'processing'.                                                           *)
SuspendedAtFivePoints ==
    \A id \in JobKeys :
        LET pc == task[id].pc
            log == calls[id]
        IN  /\ pc \in SuspensionPoints \cup {"done"}
            /\ log # <<>>
            /\ pc \in SuspensionPoints => log[Len(log)] = Call(pc)
            /\ pc = "done" => log[Len(log)].fn = "unlink" /\ log[Len(log)].ev # "call"
            /\ \A k \in 1..(Len(log) - 1) :
                  log[k].ev = "call" => log[k + 1].fn = log[k].fn /\ log[k + 1].ev # "call"
            /\ pc = "isValidPDF" => Job(id).status = "processing"

\* while the first job's validation is awaited, a second job has been
\* submitted and validated
ValidationInterleaved ==
    /\ Len(jobs) >= 2
    /\ Awaiting(jobs[1].id, "isValidPDF")
    /\ Job(jobs[1].id).status = "processing"
    /\ Awaiting(jobs[2].id, "extractText")

\* the four stages of the pipeline
Stages == {"isValidPDF"} \cup Providers

\* the call of stage fn that job id's task has made and not yet seen settle
StageStarted(id, fn) == calls[id] # <<>> /\ calls[id][Len(calls[id])] = Call(fn)

(* C26: whenever isValidPDF, extractText, extractContractData or           *)
(* createContractPage has been invoked for a job, the job is 'processing': *)
(* a job that is 'pending', 'completed' or 'failed' has no stage started,  *)
(* and a 'pending' job has had no call at all.                             *)
StagesRunWhileProcessing ==
    \A id \in JobKeys :
        /\ \A fn \in Stages : StageStarted(id, fn) => Job(id).status = "processing"
        /\ Job(id).status = "pending" => calls[id] = <<>>
        /\ Job(id).status \in {"completed", "failed"} =>
              calls[id][Len(calls[id])].fn = "unlink" \/ calls[id][Len(calls[id])].ev # "call"

\* the publishing stage has been started for a 'processing' job while an
\* earlier job has failed and stays without a further stage
StageStartedBesideFailed ==
    /\ Len(jobs) >= 2
    /\ jobs[1].status = "failed"
    /\ StageStarted(jobs[2].id, "createContractPage")
    /\ jobs[2].status = "processing"

(***************************************************************************)
(* The service when the two log calls that follow the completion write may *)
(* throw.  Both stand inside the try block, so what they throw is caught   *)
(* by the catch block of the same function.                                *)
(***************************************************************************)
LoggerError == NewError("write EPIPE")

\* createContractPage returns, the job is marked completed, and the
\* logger.info that follows throws: the catch block marks the same job
\* failed and starts its own removal of the upload.
CompletionLogThrows(id) ==
    /\ Awaiting(id, "createContractPage")
    /\ \E data \in task[id].contractData : \E targetUrl \in task[id].targetUrl :
       \E o \in createContractPage(data, targetUrl) :
          /\ o.ok
          /\ LET completed == JobsSet(jobs, id, Completed(JobsGet(jobs, id), now, data, o.val))
             IN  /\ jobs' = JobsSet(completed, id, Failed(JobsGet(completed, id), now, LoggerError))
                 /\ statusLog' = Assigned(Assigned(statusLog, id, "completed"), id, "failed")
          /\ task' = [task EXCEPT ![id].pc = "unlink", ![id].confluenceUrl = {o.val},
                                  ![id].caught = {LoggerError},
                                  ![id].completedAtWrites = @ + 2]
          /\ calls' = [calls EXCEPT ![id] = @ \o <<Settled("createContractPage", o), Call("unlink")>>]
    /\ UNCHANGED applied
    /\ res' = {}
    /\ UNCHANGED <<disk, returned>>

\* The removal awaited in the try block rejects and the logger.warn of its
\* catch() handler throws: the awaited promise rejects with what the logger
\* threw, and the catch block runs for a job that is already completed.
CleanupWarnThrows(id) ==
    /\ Awaiting(id, "unlink")
    /\ task[id].caught = {}
    /\ \E o \in unlink(disk, task[id].filePath) :
          /\ ~o.ok
          /\ Catch(id, Settled("unlink", o), task[id], LoggerError)

LogFaultNext ==
    \/ Next
    \/ \E id \in JobIds : CompletionLogThrows(id)
    \/ \E id \in JobIds : CleanupWarnThrows(id)

LogFaultSpec == Init /\ [][LogFaultNext]_vars

(* C27: terminal states are absorbing: the first terminal status assigned  *)
(* to a job is the last status it is ever assigned, completedAt is written *)
(* once, a completed job carries no error and a failed job no result, also *)
(* when the completion log call or the cleanup's failure handler throws.   *)
TerminalStatesAbsorbing ==
    \A id \in JobKeys :
        LET log == statusLog[id]
        IN  \A k \in 1..Len(log) : log[k] \in {"completed", "failed"} =>
                /\ k = Len(log)
                /\ Job(id).status = log[k]
                /\ task[id].completedAtWrites = 1
                /\ log[k] = "completed" =>
                      Job(id).error = {} /\ Job(id).contractData # {} /\ Job(id).confluencePageUrl # {}
                /\ log[k] = "failed" =>
                      Job(id).error # {} /\ Job(id).contractData = {} /\ Job(id).confluencePageUrl = {}

\* job id's own task has called fs.unlink
ReleaseAttempted(id) == \E i \in 1..Len(calls[id]) : calls[id][i].fn = "unlink"

(* C28: the upload is released only after the job's terminal status is     *)
(* written: while a job is 'pending' or 'processing' its own task has not  *)
(* called fs.unlink, and every event of a stage comes before the first     *)
(* event of the removal.                                                   *)
ReleasedAfterTerminalWrite ==
    \A id \in JobKeys :
        /\ Job(id).status \in {"pending", "processing"} => ~ReleaseAttempted(id)
        /\ \A i \in 1..Len(calls[id]), j \in 1..Len(calls[id]) :
              calls[id][i].fn \in Stages /\ calls[id][j].fn = "unlink" => i < j

\* one job has read its upload twice, ended and removed it, while another
\* job, still 'processing', has its upload on disk and no removal started
ReleasedBesideUnreleased ==
    \E a \in JobKeys, b \in JobKeys :
        /\ Job(a).status = "completed"
        /\ Occurs(a, Returned("isValidPDF")) /\ Occurs(a, Returned("extractText"))
        /\ Occurs(a, Returned("unlink"))
        /\ task[a].filePath \notin DOMAIN disk
        /\ Job(b).status = "processing"
        /\ ~ReleaseAttempted(b)
        /\ task[b].filePath \in DOMAIN disk

(***************************************************************************)
(* The service with the upload's name made as multer's filename callback   *)
(* makes it: from the field name, the clock's millisecond, a random draw   *)
(* and the extension of the original name.  Two requests can be served     *)
(* within one millisecond, and two draws can be equal.                     *)
(***************************************************************************)
\* values of Date.now(): two uploads arrive in one millisecond or in two
Instants == 1..2

\* values of Math.round(Math.random() * 1E9)
Draws == 0..1

\* path.extname for the names the uploads carry
extname(originalname) == IF originalname \in {u.originalname : u \in Uploads} THEN ".pdf" ELSE ""

\* file.fieldname + '-' + Date.now() + '-' + draw + path.extname(file.originalname)
filename(fieldname, instant, draw, originalname) ==
    <<fieldname, "-", instant, "-", draw, extname(originalname)>>

\* POST /process with the path multer chose; a file already at that path is
\* overwritten
PostProcessNamed ==
    /\ Len(returned) < MaxJobs
    /\ \E req \in Requests : \E instant \in Instants : \E draw \in Draws :
          LET filePath == filename("contract", instant, draw, req.file.originalname)
              jobId == uuidv4(Len(returned) + 1) IN
          /\ disk' = Store(disk, filePath, req.file)
          /\ processContract(jobId, filePath, req.file.originalname, {})
          /\ UNCHANGED applied
          /\ res' = {Accepted(req, jobId)}

NamedNext ==
    \/ PostProcessNamed
    \/ \E id \in JobIds : IsValidPDFSettles(id)
    \/ \E id \in JobIds : ExtractTextSettles(id)
    \/ \E id \in JobIds : ExtractContractDataSettles(id)
    \/ \E id \in JobIds : CreateContractPageSettles(id)
    \/ \E id \in JobIds : UnlinkSettles(id)

NamedSpec == Init /\ [][NamedNext]_vars

(* C29: two uploads are never stored under the same path, so the upload of *)
(* a job that has not ended and has not started its own cleanup is on disk *)
(* and is the file that job was submitted with.                            *)
UploadPathsNeverShared ==
    /\ \A a \in JobKeys, b \in JobKeys : a # b => task[a].filePath # task[b].filePath
    /\ \A id \in JobKeys : InFlight(id) /\ ~ReleaseAttempted(id) =>
          /\ task[id].filePath \in DOMAIN disk
          /\ disk[task[id].filePath].originalname = Job(id).filename

\* the value the catch block of job id's task received
CaughtValue(id) == CHOOSE e \in task[id].caught : TRUE

(* C31: the failure reason of a failed job is always a defined string: the *)
(* message of the value its task caught when that value is an Error, and   *)
(* 'Unknown error' when a stage threw a value that is no Error.            *)
FailureReasonDefined ==
    \A id \in JobKeys : Job(id).status = "failed" =>
        /\ Cardinality(task[id].caught) = 1
        /\ Cardinality(Job(id).error) = 1
        /\ \A reason \in Job(id).error :
              /\ reason \in STRING
              /\ CaughtValue(id).isError => reason = CaughtValue(id).message
              /\ ~CaughtValue(id).isError => reason = "Unknown error"

\* one job failed on a value that is no Error, another on an Error
UnknownBesideKnownReason ==
    \E a \in JobKeys, b \in JobKeys :
        /\ Job(a).status = "failed" /\ Job(b).status = "failed"
        /\ ~CaughtValue(a).isError
        /\ Occurs(a, Threw("createContractPage"))
        /\ Job(a).error = {"Unknown error"}
        /\ CaughtValue(b) = InvalidPdfError
        /\ Job(b).error = {"Invalid PDF file"}

====
